---- MODULE Spec2Model ----
(***************************************************************************)
(* Morse code translator (src/morse/morse_trie.py): the code table, the    *)
(* binary trie built from it, trie-based decoding, table-based encoding    *)
(* and the transmission timing simulation.                                 *)
(*                                                                         *)
(* A Python string is modelled as a sequence of one-character strings.     *)
(* A trie node is identified by the path of marks leading to it from the   *)
(* root; the trie is the function from the existing nodes to their char    *)
(* field, and a child reference is None exactly when the child's path is   *)
(* not in the function's domain.                                           *)
(***************************************************************************)
EXTENDS Integers, Sequences, FiniteSets, TLC

VARIABLES
    root,           \* MorseTrie.root: the trie under construction / built
    todo,           \* items of MORSE_MAP that build_trie has still to insert
    op,             \* position of the menu loop of main() / of the running handler
    text,           \* the text handed to encode
    morse_message,  \* the Morse string produced by encode or typed by the user
    decoded,        \* outcome of MorseTrie.decode
    wpm,            \* speed handed to display_morse_timing_simulation
    unit_time,      \* its local unit_time, a rational <<numerator, denominator>>
    display_code,   \* its local display_code
    pos,            \* index of the next symbol of display_code to transmit
    events,         \* what the simulation has emitted so far, in order
    status          \* how the simulation stands: idle, running, done or a failure

vars == <<root, todo, op, text, morse_message, decoded,
          wpm, unit_time, display_code, pos, events, status>>

(***************************************************************************)
(* Bounds of the model.                                                    *)
(***************************************************************************)
\* build_trie may take any of the first MaxReorder pending items next
MaxReorder == 2
\* a text handed to encode has at most MaxTextLen characters ...
MaxTextLen == 4
\* ... drawn from MaxSymbols neighbouring symbols of the table, in either
\* case, the blank and a character the table does not have
MaxSymbols == 2
\* a Morse string typed by the user has at most MaxMorseLen characters
MaxMorseLen == 8
\* a Morse string handed to the simulation has at most MaxTimedLen characters
MaxTimedLen == 5
\* the simulation is run at 0..MaxWpm words per minute
MaxWpm == 2

(***************************************************************************)
(* 1. Data structure definitions                                           *)
(***************************************************************************)
\* The dict literal, as its items in insertion order.
MORSE_MAP ==
    << <<"A", <<".", "-">>>>, <<"B", <<"-", ".", ".", ".">>>>, <<"C", <<"-", ".", "-", ".">>>>,
       <<"D", <<"-", ".", ".">>>>, <<"E", <<".">>>>, <<"F", <<".", ".", "-", ".">>>>,
       <<"G", <<"-", "-", ".">>>>, <<"H", <<".", ".", ".", ".">>>>, <<"I", <<".", ".">>>>,
       <<"J", <<".", "-", "-", "-">>>>, <<"K", <<"-", ".", "-">>>>, <<"L", <<".", "-", ".", ".">>>>,
       <<"M", <<"-", "-">>>>, <<"N", <<"-", ".">>>>, <<"O", <<"-", "-", "-">>>>,
       <<"P", <<".", "-", "-", ".">>>>, <<"Q", <<"-", "-", ".", "-">>>>, <<"R", <<".", "-", ".">>>>,
       <<"S", <<".", ".", ".">>>>, <<"T", <<"-">>>>, <<"U", <<".", ".", "-">>>>,
       <<"V", <<".", ".", ".", "-">>>>, <<"W", <<".", "-", "-">>>>, <<"X", <<"-", ".", ".", "-">>>>,
       <<"Y", <<"-", ".", "-", "-">>>>, <<"Z", <<"-", "-", ".", ".">>>>, <<"0", <<"-", "-", "-", "-", "-">>>>,
       <<"1", <<".", "-", "-", "-", "-">>>>, <<"2", <<".", ".", "-", "-", "-">>>>, <<"3", <<".", ".", ".", "-", "-">>>>,
       <<"4", <<".", ".", ".", ".", "-">>>>, <<"5", <<".", ".", ".", ".", ".">>>>, <<"6", <<"-", ".", ".", ".", ".">>>>,
       <<"7", <<"-", "-", ".", ".", ".">>>>, <<"8", <<"-", "-", "-", ".", ".">>>>, <<"9", <<"-", "-", "-", "-", ".">>>>,
       <<".", <<".", "-", ".", "-", ".", "-">>>>, <<",", <<"-", "-", ".", ".", "-", "-">>>>, <<"?", <<".", ".", "-", ".", ".">>>>,
       <<"/", <<"-", ".", ".", "-", ".">>>> >>

Keys == {MORSE_MAP[i][1] : i \in 1..Len(MORSE_MAP)}

InMap(char) == char \in Keys

Lookup(char) == LET i == CHOOSE j \in 1..Len(MORSE_MAP) : MORSE_MAP[j][1] = char
                IN MORSE_MAP[i][2]

Codes == {MORSE_MAP[i][2] : i \in 1..Len(MORSE_MAP)}

\* Python's None (a char field never set, an absent child, no result yet)
None == "None"

\* MorseNode(): char None, both children None
MorseNode == None

\* MorseTrie.__init__ before build_trie: the lone root
EmptyTrie == [node \in {<<>>} |-> MorseNode]

\* current_node.dot_child / current_node.dash_child
Child(current_node, symbol) == Append(current_node, symbol)

IsPrefix(p, q) == Len(p) <= Len(q) /\ SubSeq(q, 1, Len(p)) = p

\* a bug: the child is created anew even when it exists, dropping its subtree
EnsureChildAlways(trie, child) ==
    [node \in {n \in DOMAIN trie : ~IsPrefix(child, n)} \cup {child} |->
        IF node = child THEN MorseNode ELSE trie[node]]

\* "if current_node.dot_child is None: current_node.dot_child = MorseNode()"
EnsureChild(trie, child) ==
    IF child \in DOMAIN trie
    THEN trie
    ELSE [node \in DOMAIN trie \cup {child} |->
            IF node = child THEN MorseNode ELSE trie[node]]

\* the inner loop of build_trie: <<trie, node reached>> after walking `code`
\* from current_node, creating the missing children; a symbol that is neither
\* '.' nor '-' moves nowhere
RECURSIVE BuildWalk(_, _, _)
BuildWalk(trie, current_node, code) ==
    IF code = <<>>
    THEN <<trie, current_node>>
    ELSE IF Head(code) \in {".", "-"}
         THEN LET child == Child(current_node, Head(code))
              IN BuildWalk(EnsureChild(trie, child), child, Tail(code))
         ELSE BuildWalk(trie, current_node, Tail(code))

\* a bug: the char is stored only on a node that has no child yet
InsertItemLeafOnly(trie, char, code) ==
    LET w == BuildWalk(trie, <<>>, code)
        hasChild == \E m \in {".", "-"} : Child(w[2], m) \in DOMAIN w[1]
    IN IF hasChild THEN w[1] ELSE [w[1] EXCEPT ![w[2]] = char]

\* one iteration of the outer loop of build_trie
InsertItem(trie, char, code) ==
    LET w == BuildWalk(trie, <<>>, code)
    IN [w[1] EXCEPT ![w[2]] = char]

\* build_trie over the items in the given order
RECURSIVE BuildFrom(_, _)
BuildFrom(trie, items) ==
    IF items = <<>>
    THEN trie
    ELSE LET next == InsertItem(trie, Head(items)[1], Head(items)[2])
         IN IF <<>> \in DOMAIN next   \* always: the root is never removed
            THEN BuildFrom(next, Tail(items))
            ELSE next

\* MorseTrie(): the trie as the program builds it, in dict order
BuiltTrie == BuildFrom(EmptyTrie, MORSE_MAP)

Reverse(s) == [i \in 1..Len(s) |-> s[Len(s) + 1 - i]]

RemoveAt(s, i) == SubSeq(s, 1, i - 1) \o SubSeq(s, i + 1, Len(s))

Min(a, b) == IF a < b THEN a ELSE b

(***************************************************************************)
(* Trie construction, one item per step.  The program takes the items in   *)
(* dict order; the model also lets it start from the reversed order and    *)
(* take any of the first MaxReorder pending items.                         *)
(***************************************************************************)
Idle ==
    /\ op = "menu" /\ text = None /\ morse_message = None /\ decoded = None
    /\ wpm = 0 /\ unit_time = None /\ display_code = None /\ pos = 0
    /\ events = <<>> /\ status = "idle"

InitBuild ==
    /\ root = EmptyTrie
    /\ todo \in {MORSE_MAP, Reverse(MORSE_MAP)}
    /\ Idle

BuildStep ==
    /\ todo # <<>>
    /\ \E i \in 1..Min(MaxReorder, Len(todo)) :
          /\ root' = InsertItem(root, todo[i][1], todo[i][2])
          /\ todo' = RemoveAt(todo, i)
    /\ UNCHANGED <<op, text, morse_message, decoded,
                   wpm, unit_time, display_code, pos, events, status>>

NextBuild == BuildStep

SpecBuild == InitBuild /\ [][NextBuild]_vars

BuildDone == todo = <<>>

\* the nodes whose char field is set
Labelled(trie) == {node \in DOMAIN trie : trie[node] # None}

HasChild(trie, node) == \E m \in {".", "-"} : Child(node, m) \in DOMAIN trie

(***************************************************************************)
(* Properties of the table and of the construction                         *)
(***************************************************************************)

\* C4 (as stated): the table is prefix-free: no code of the table is a prefix
\* of another symbol's code; equivalently, in the built trie no node that
\* carries a symbol has a child.
C4_PrefixFree ==
    BuildDone =>
        /\ \A c1, c2 \in Keys :
              c1 # c2 => ~IsPrefix(Lookup(c1), Lookup(c2))
        /\ \A node \in Labelled(root) : ~HasChild(root, node)

\* C4 (amended): the codes of the table are pairwise distinct, so in the
\* built trie no node ends the codes of two symbols: there are as many nodes
\* carrying a symbol as the table has symbols.  A code may be a proper prefix
\* of another ('.' of '.-').
C4_DistinctCodes ==
    BuildDone =>
        /\ \A c1, c2 \in Keys : c1 # c2 => Lookup(c1) # Lookup(c2)
        /\ Cardinality(Labelled(root)) = Len(MORSE_MAP)

\* C4 witness: the build is over, 'E' sits on the node '.', which has the
\* child '.-' carrying 'A'.
C4_Witness ==
    /\ BuildDone
    /\ root[<<".">>] = "E"
    /\ HasChild(root, <<".">>)
    /\ root[<<".", "-">>] = "A"

\* a step of the build keeps every node and every char already set
C9_NoOverwrite ==
    \A node \in DOMAIN root :
        /\ node \in DOMAIN root'
        /\ root[node] # None => root'[node] = root[node]

\* a finished build gives the trie of the dict order, labelled by the table
C9_FinalTrie ==
    BuildDone =>
        /\ root = BuiltTrie
        /\ Labelled(root) = Codes
        /\ \A c \in Keys : root[Lookup(c)] = c

\* C9: whatever the order of insertion, a step of the build never removes a
\* node and never changes a char already set, and when the build is over the
\* trie is the one the dict order yields: the nodes carrying a symbol are
\* exactly the ends of the table's codes, each carrying the symbol of its code.
C9_BuildDeterminism == []C9_FinalTrie /\ [][C9_NoOverwrite]_vars

\* C9 witness: a build that did not follow the dict order ('E' is in, 'A',
\* which the dict has first, is still pending although its node exists) ...
C9_OutOfOrder ==
    /\ <<".">> \in DOMAIN root
    /\ root[<<".">>] = "E"
    /\ \E i \in 1..Len(todo) : todo[i][1] = "A"
    /\ <<".", "-">> \in DOMAIN root

\* ... and C9's witness proper: a finished build holding all the symbols
C9_Witness ==
    /\ BuildDone
    /\ Cardinality(Labelled(root)) = Len(MORSE_MAP)
    /\ root[<<>>] = None

(***************************************************************************)
(* Python string methods used by the program                               *)
(***************************************************************************)
\* the letters str.upper() changes, each with its upper-case form
LowerUpper ==
    << <<"a", "A">>, <<"b", "B">>, <<"c", "C">>, <<"d", "D">>, <<"e", "E">>, <<"f", "F">>,
       <<"g", "G">>, <<"h", "H">>, <<"i", "I">>, <<"j", "J">>, <<"k", "K">>, <<"l", "L">>,
       <<"m", "M">>, <<"n", "N">>, <<"o", "O">>, <<"p", "P">>, <<"q", "Q">>, <<"r", "R">>,
       <<"s", "S">>, <<"t", "T">>, <<"u", "U">>, <<"v", "V">>, <<"w", "W">>, <<"x", "X">>,
       <<"y", "Y">>, <<"z", "Z">> >>

\* str.upper() on one character
UpperChar(c) ==
    IF \E i \in 1..Len(LowerUpper) : LowerUpper[i][1] = c
    THEN LowerUpper[CHOOSE i \in 1..Len(LowerUpper) : LowerUpper[i][1] = c][2]
    ELSE c

\* str.upper()
Upper(s) == [i \in 1..Len(s) |-> UpperChar(s[i])]

Whitespace == {" ", "\t", "\n"}

\* str.strip()
RECURSIVE LStrip(_)
LStrip(s) == IF s # <<>> /\ Head(s) \in Whitespace THEN LStrip(Tail(s)) ELSE s

RECURSIVE RStrip(_)
RStrip(s) ==
    IF s # <<>> /\ s[Len(s)] \in Whitespace
    THEN RStrip(SubSeq(s, 1, Len(s) - 1))
    ELSE s

Strip(s) == RStrip(LStrip(s))

\* the places where sep occurs in s
Occurrences(s, sep) ==
    {i \in 1..(Len(s) - Len(sep) + 1) : SubSeq(s, i, i + Len(sep) - 1) = sep}

\* str.split(sep): cut at the leftmost occurrences of sep, which do not
\* overlap; empty pieces are kept
RECURSIVE SplitOn(_, _)
SplitOn(s, sep) ==
    IF Occurrences(s, sep) = {}
    THEN <<s>>
    ELSE LET i == CHOOSE j \in Occurrences(s, sep) :
                      \A k \in Occurrences(s, sep) : j <= k
         IN <<SubSeq(s, 1, i - 1)>> \o SplitOn(SubSeq(s, i + Len(sep), Len(s)), sep)

\* str.split(): cut at runs of whitespace; no empty piece
RECURSIVE SplitWs(_, _)
SplitWs(s, word) ==
    IF s = <<>>
    THEN IF word = <<>> THEN <<>> ELSE <<word>>
    ELSE IF Head(s) \in Whitespace
         THEN (IF word = <<>> THEN <<>> ELSE <<word>>) \o SplitWs(Tail(s), <<>>)
         ELSE SplitWs(Tail(s), Append(word, Head(s)))

\* sep.join(parts)
RECURSIVE Join(_, _)
Join(parts, sep) ==
    IF parts = <<>> THEN <<>>
    ELSE IF Len(parts) = 1 THEN parts[1]
    ELSE parts[1] \o sep \o Join(Tail(parts), sep)

\* str.replace(old, new)
RECURSIVE Replace(_, _, _)
Replace(s, old, new) ==
    IF Len(s) < Len(old) THEN s
    ELSE IF SubSeq(s, 1, Len(old)) = old
         THEN new \o Replace(SubSeq(s, Len(old) + 1, Len(s)), old, new)
         ELSE <<Head(s)>> \o Replace(Tail(s), old, new)

(***************************************************************************)
(* 2. Encoding                                                             *)
(***************************************************************************)
\* a bug: a character the table does not have is dropped
EncodeCharSkip(char) == IF InMap(char) THEN Lookup(char) ELSE <<>>

\* the body of "for char in word"
EncodeChar(char) == IF InMap(char) THEN Lookup(char) ELSE <<"#", "#", "#">>

\* a bug: the words are joined like the characters, with one blank
JoinWordsSingle(encoded_parts) == Join(encoded_parts, <<" ">>)

\* "   ".join(encoded_parts)
JoinWords(encoded_parts) == Join(encoded_parts, <<" ", " ", " ">>)

\* the body of "for word in text.split()": " ".join(morse_word)
EncodeWord(word) == Join([i \in 1..Len(word) |-> EncodeChar(word[i])], <<" ">>)

\* encode(text)
Encode(t) ==
    LET words == SplitWs(Upper(t), <<>>)
    IN JoinWords([i \in 1..Len(words) |-> EncodeWord(words[i])])

(***************************************************************************)
(* MorseTrie.decode                                                        *)
(***************************************************************************)
\* step 3, the traversal of one code from current_node: the node reached
\* (None when a child is absent), whether reading a child of None raised
\* AttributeError, and the number of diagnostics printed to stderr
RECURSIVE Traverse(_, _, _)
Traverse(trie, current_node, code) ==
    IF code = <<>>
    THEN [node |-> current_node, raised |-> FALSE, stderr |-> 0]
    ELSE IF Head(code) \in {".", "-"}
         THEN IF current_node = None
              THEN [node |-> None, raised |-> TRUE, stderr |-> 0]
              ELSE LET child == Child(current_node, Head(code))
                   IN Traverse(trie,
                               IF child \in DOMAIN trie THEN child ELSE None,
                               Tail(code))
         ELSE [node |-> None, raised |-> FALSE, stderr |-> 1]

\* step 4: the character appended for a code whose traversal ended on node
Extract(trie, node) ==
    IF node # None /\ trie[node] # None THEN trie[node] ELSE "?"

\* "for code in char_codes": the decoded word so far, extended
RECURSIVE DecodeCodes(_, _, _)
DecodeCodes(trie, char_codes, acc) ==
    IF char_codes = <<>> \/ acc.raised
    THEN acc
    ELSE IF Head(char_codes) = <<>>
         THEN DecodeCodes(trie, Tail(char_codes), acc)
         ELSE LET t == Traverse(trie, <<>>, Head(char_codes))
              IN DecodeCodes(trie, Tail(char_codes),
                    [word   |-> IF t.raised THEN acc.word
                                ELSE Append(acc.word, Extract(trie, t.node)),
                     raised |-> t.raised,
                     stderr |-> acc.stderr + t.stderr])

\* "for word_morse in words": the decoded words so far, extended
RECURSIVE DecodeWords(_, _, _)
DecodeWords(trie, words, acc) ==
    IF words = <<>> \/ acc.raised
    THEN acc
    ELSE LET w == DecodeCodes(trie, SplitOn(Head(words), <<" ">>),
                              [word |-> <<>>, raised |-> FALSE, stderr |-> 0])
         IN DecodeWords(trie, Tail(words),
               [text   |-> IF w.raised THEN acc.text ELSE Append(acc.text, w.word),
                raised |-> w.raised,
                stderr |-> acc.stderr + w.stderr])

\* decode(morse_message): what it returns, or the exception it raises, and
\* the number of diagnostics it printed
Decode(trie, m) ==
    LET words == SplitOn(Strip(m), <<" ", " ", " ">>)
        r == DecodeWords(trie, words,
                         [text |-> <<>>, raised |-> FALSE, stderr |-> 0])
    IN IF r.raised
       THEN [status |-> "AttributeError", value |-> None, stderr |-> r.stderr]
       ELSE [status |-> "returned", value |-> Join(r.text, <<" ">>),
             stderr |-> r.stderr]

\* the strings of n characters of the set A
Strings(A, n) == [1..n -> A]

\* the lower-case forms of the characters of A
LowerOf(A) ==
    {LowerUpper[i][1] : i \in {j \in 1..Len(LowerUpper) : LowerUpper[j][2] \in A}}

\* MaxSymbols symbols of the table from its k-th on, going round
Neighbours(k) ==
    {MORSE_MAP[((k + j - 1) % Len(MORSE_MAP)) + 1][1] : j \in 0..(MaxSymbols - 1)}

\* the characters of a text: table symbols in either case, the blank and a
\* character that is not in the table
TextAlphabet(k) == Neighbours(k) \cup LowerOf(Neighbours(k)) \cup {" ", "@"}

\* the characters of a typed Morse string: marks, the blank and a bad mark
MorseAlphabet == {".", "-", " ", "#"}

(***************************************************************************)
(* encode followed by decode of its result, on a built trie                *)
(***************************************************************************)
InitCodec ==
    /\ root = BuiltTrie
    /\ todo = <<>>
    /\ Idle

EncodeText ==
    /\ op = "menu"
    /\ \E k \in 1..Len(MORSE_MAP), n \in 0..MaxTextLen :
       \E t \in Strings(TextAlphabet(k), n) :
          /\ text' = t
          /\ morse_message' = Encode(t)
    /\ op' = "encoded"
    /\ UNCHANGED <<root, todo, decoded,
                   wpm, unit_time, display_code, pos, events, status>>

DecodeEncoded ==
    /\ op = "encoded"
    /\ decoded' = Decode(root, morse_message)
    /\ op' = "decoded"
    /\ UNCHANGED <<root, todo, text, morse_message,
                   wpm, unit_time, display_code, pos, events, status>>

NextCodec == EncodeText \/ DecodeEncoded

SpecCodec == InitCodec /\ [][NextCodec]_vars

(***************************************************************************)
(* decode of a Morse string typed by the user, on a built trie             *)
(***************************************************************************)
DecodeInput ==
    /\ op = "menu"
    /\ \E n \in 0..MaxMorseLen :
       \E m \in Strings(MorseAlphabet, n) :
          /\ morse_message' = m
          /\ decoded' = Decode(root, m)
    /\ op' = "decoded"
    /\ UNCHANGED <<root, todo, text,
                   wpm, unit_time, display_code, pos, events, status>>

NextDecode == DecodeInput

SpecDecode == InitCodec /\ [][NextDecode]_vars

(***************************************************************************)
(* Properties of encode and decode                                         *)
(***************************************************************************)
Range(s) == {s[i] : i \in 1..Len(s)}

Marks == {".", "-"}

\* the table read backwards: the symbol a code stands for, '?' for a code
\* the table does not have
SymbolOf(code) ==
    IF code \in Codes
    THEN MORSE_MAP[CHOOSE i \in 1..Len(MORSE_MAP) : MORSE_MAP[i][2] = code][1]
    ELSE "?"

NonEmpty(parts) == SelectSeq(parts, LAMBDA c : c # <<>>)

\* the character-codes of a Morse string, word by word: words are
\* separated by three blanks, the codes of a word by one
CodesOf(m) ==
    LET words == SplitOn(Strip(m), <<" ", " ", " ">>)
    IN [i \in 1..Len(words) |-> NonEmpty(SplitOn(words[i], <<" ">>))]

\* the text a Morse string stands for, by the table
Meaning(words) ==
    Join([i \in 1..Len(words) |->
            [j \in 1..Len(words[i]) |-> SymbolOf(words[i][j])]], <<" ">>)

AllCodes(words) == UNION {Range(words[i]) : i \in 1..Len(words)}

\* one or more non-empty words of table symbols, in either case, separated
\* by single blanks
WellFormedText(t) ==
    /\ t # <<>>
    /\ Range(t) \subseteq Keys \cup LowerOf(Keys) \cup {" "}
    /\ t[1] # " " /\ t[Len(t)] # " "
    /\ \A i \in 1..(Len(t) - 1) : ~(t[i] = " " /\ t[i + 1] = " ")

\* C1: round trip: decoding the encoding of a well-formed text returns the
\* text in upper case, its words separated by single blanks; a symbol of the
\* table alone is encoded as its code, which decodes to that symbol.
C1_RoundTrip ==
    (op = "decoded" /\ WellFormedText(text)) =>
        /\ decoded.status = "returned"
        /\ decoded.value = Upper(text)
        /\ (Len(text) = 1 /\ text[1] \in Keys) =>
              /\ morse_message = Lookup(text[1])
              /\ decoded.value = text

\* C1 witness: a decoded text of several words with a lower-case letter
C1_Witness ==
    /\ op = "decoded"
    /\ WellFormedText(text)
    /\ " " \in Range(text)
    /\ \E i \in 1..Len(text) : UpperChar(text[i]) # text[i]
    /\ decoded.status = "returned"
    /\ decoded.value = Upper(text)

\* C6: encode gives one code per character of each word of the upper-cased
\* text, the table's code for a symbol of the table and '###' for any other
\* character, the codes of a word separated by one blank and the words by
\* three; it always returns.
C6_UnknownCharacter ==
    op \in {"encoded", "decoded"} =>
        LET words == SplitWs(Upper(text), <<>>)
            out   == SplitOn(morse_message, <<" ", " ", " ">>)
        IN IF words = <<>>
           THEN morse_message = <<>>
           ELSE /\ Len(out) = Len(words)
                /\ \A i \in 1..Len(words) :
                      LET codes == SplitOn(out[i], <<" ">>)
                      IN /\ Len(codes) = Len(words[i])
                         /\ \A j \in 1..Len(words[i]) :
                               codes[j] = IF words[i][j] \in Keys
                                          THEN Lookup(words[i][j])
                                          ELSE <<"#", "#", "#">>

\* C6 witness: an encoded text of two words or more, with a character that
\* is not in the table followed by a symbol of the table in the same word
C6_Witness ==
    /\ op = "encoded"
    /\ Len(SplitWs(Upper(text), <<>>)) >= 2
    /\ \E i \in 1..(Len(text) - 1) :
          text[i] = "@" /\ UpperChar(text[i + 1]) \in Keys
    /\ \E i \in 1..(Len(morse_message) - 3) :
          SubSeq(morse_message, i, i + 3) = <<"#", "#", "#", " ">>

\* C2: a Morse string of marks and blanks with a code the table does not
\* have is decoded without failure, '?' standing for each such code and
\* every other code decoded by the table.
C2_UnknownCode ==
    (/\ op = "decoded"
     /\ Range(morse_message) \subseteq Marks \cup {" "}
     /\ \E c \in AllCodes(CodesOf(morse_message)) : c \notin Codes) =>
        /\ decoded.status = "returned"
        /\ decoded.value = Meaning(CodesOf(morse_message))

\* the words of a Morse string when every run of two blanks or more is a
\* word boundary and a single blank separates the codes of a word
RECURSIVE WordsByRuns(_, _, _, _, _)
WordsByRuns(s, code, word, words, blanks) ==
    LET word1 == IF code = <<>> THEN word ELSE Append(word, code)
    IN IF s = <<>>
       THEN IF word1 = <<>> THEN words ELSE Append(words, word1)
       ELSE IF Head(s) = " "
            THEN IF blanks >= 1
                 THEN WordsByRuns(Tail(s), <<>>, <<>>,
                                  IF word1 = <<>> THEN words ELSE Append(words, word1),
                                  blanks + 1)
                 ELSE WordsByRuns(Tail(s), <<>>, word1, words, blanks + 1)
            ELSE WordsByRuns(Tail(s), Append(code, Head(s)), word, words, 0)

\* C5: in a Morse string made of codes of the table, a run of two blanks or
\* more between two codes is one word boundary: the output has the symbols
\* of the codes, with exactly one blank where such a run stands.
C5_IrregularSpacing ==
    LET m == Strip(morse_message)
        words == WordsByRuns(m, <<>>, <<>>, <<>>, 0)
    IN (/\ op = "decoded"
        /\ Range(m) \subseteq Marks \cup {" "}
        /\ AllCodes(words) \subseteq Codes
        /\ \E i \in 1..(Len(m) - 1) : m[i] = " " /\ m[i + 1] = " ") =>
           /\ decoded.status = "returned"
           /\ decoded.value = Meaning(words)

HasBadMark(code) == ~(Range(code) \subseteq Marks)

\* C10: in a Morse string whose codes are codes of the table or contain a
\* character that is no mark, each code with such a character is reported
\* once and gives one '?', the other codes are decoded by the table, and
\* decode does not fail.
C10_MalformedMark ==
    LET words == CodesOf(morse_message)
    IN (/\ op = "decoded"
        /\ \A c \in AllCodes(words) : c \in Codes \/ HasBadMark(c)
        /\ \E c \in AllCodes(words) : HasBadMark(c)) =>
           /\ decoded.status = "returned"
           /\ decoded.value = Meaning(words)
           /\ decoded.stderr =
                 Cardinality({<<i, j>> \in (1..Len(words)) \X (1..MaxMorseLen) :
                                 j <= Len(words[i]) /\ HasBadMark(words[i][j])})

(***************************************************************************)
(* display_morse_timing_simulation.  A duration is a rational number of    *)
(* seconds <<numerator, denominator>>; an event is what one statement of   *)
(* the loop body does: the sleep that lasts as long as a mark sounds (DOT, *)
(* DASH), a silent sleep (GAP_MARK after a mark, GAP_CHAR for ' ',         *)
(* GAP_WORD for '|') or the plain print of any other symbol (LITERAL).     *)
(* `at` is the place of the symbol in display_code.                        *)
(***************************************************************************)
Times(r, k) == <<r[1] * k, r[2]>>

RatEq(a, b) == a[1] * b[2] = b[1] * a[2]

RatAdd(a, b) ==
    IF a[1] = 0 THEN b
    ELSE IF b[1] = 0 THEN a
    ELSE IF a[2] = b[2] THEN <<a[1] + b[1], a[2]>>
    ELSE <<a[1] * b[2] + b[1] * a[2], a[2] * b[2]>>

\* a bug: no handler for the division by zero
UnitTimeUnguarded(w) ==
    IF 50 * w = 0 THEN "ZeroDivisionError" ELSE <<60, 50 * w>>

\* "try: unit_time = 60 / (50 * wpm) except ZeroDivisionError: unit_time = 0.1"
UnitTime(w) == IF 50 * w = 0 THEN <<1, 10>> ELSE <<60, 50 * w>>

\* dot_duration = unit_time
DotDuration(unit) == unit

\* dash_duration = unit_time * 3
DashDuration(unit) == Times(unit, 3)

Event(kind, dur, at) == [kind |-> kind, dur |-> dur, at |-> at]

\* a bug: a blank sleeps the whole inter-character gap
SymbolEventsFullGap(symbol, unit, at) ==
    IF symbol = "."
    THEN <<Event("DOT", DotDuration(unit), at), Event("GAP_MARK", unit, at)>>
    ELSE IF symbol = "-"
    THEN <<Event("DASH", DashDuration(unit), at), Event("GAP_MARK", unit, at)>>
    ELSE IF symbol = " "
    THEN <<Event("GAP_CHAR", Times(unit, 3), at)>>
    ELSE IF symbol = "|"
    THEN <<Event("GAP_WORD", Times(unit, 4), at)>>
    ELSE <<Event("LITERAL", <<0, 1>>, at)>>

\* the body of "for symbol in display_code"
SymbolEvents(symbol, unit, at) ==
    IF symbol = "."
    THEN <<Event("DOT", DotDuration(unit), at), Event("GAP_MARK", unit, at)>>
    ELSE IF symbol = "-"
    THEN <<Event("DASH", DashDuration(unit), at), Event("GAP_MARK", unit, at)>>
    ELSE IF symbol = " "
    THEN <<Event("GAP_CHAR", Times(unit, 2), at)>>
    ELSE IF symbol = "|"
    THEN <<Event("GAP_WORD", Times(unit, 4), at)>>
    ELSE <<Event("LITERAL", <<0, 1>>, at)>>

\* display_code = morse_code.replace('   ', ' | ')
DisplayCode(morse_code) == Replace(morse_code, <<" ", " ", " ">>, <<" ", "|", " ">>)

InitTimer ==
    /\ root = BuiltTrie
    /\ todo = <<>>
    /\ Idle

\* the call, up to the loop: a blank string is refused, the unit is computed
StartTransmission ==
    /\ status = "idle"
    /\ \E n \in 0..MaxTimedLen, w \in 0..MaxWpm :
       \E m \in Strings(MorseAlphabet, n) :
          /\ morse_message' = m
          /\ wpm' = w
          /\ IF Strip(m) = <<>>
             THEN /\ status' = "nothing to transmit"
                  /\ UNCHANGED <<unit_time, display_code, pos>>
             ELSE IF UnitTime(w) = "ZeroDivisionError"
             THEN /\ status' = "ZeroDivisionError"
                  /\ UNCHANGED <<unit_time, display_code, pos>>
             ELSE /\ status' = "running"
                  /\ unit_time' = UnitTime(w)
                  /\ display_code' = DisplayCode(m)
                  /\ pos' = 1
    /\ UNCHANGED <<root, todo, op, text, decoded, events>>

\* one iteration of the loop
TransmitSymbol ==
    /\ status = "running"
    /\ pos <= Len(display_code)
    /\ events' = events \o SymbolEvents(display_code[pos], unit_time, pos)
    /\ pos' = pos + 1
    /\ UNCHANGED <<root, todo, op, text, morse_message, decoded,
                   wpm, unit_time, display_code, status>>

\* the loop is over: "Transmission Complete"
FinishTransmission ==
    /\ status = "running"
    /\ pos > Len(display_code)
    /\ status' = "done"
    /\ UNCHANGED <<root, todo, op, text, morse_message, decoded,
                   wpm, unit_time, display_code, pos, events>>

NextTimer == StartTransmission \/ TransmitSymbol \/ FinishTransmission

SpecTimer == InitTimer /\ [][NextTimer]_vars

(***************************************************************************)
(* Properties of the timing                                                *)
(***************************************************************************)
IsMark(e) == e.kind \in {"DOT", "DASH"}

\* events i and j are marks with no mark between them
ConsecutiveMarks(i, j) ==
    /\ i < j
    /\ IsMark(events[i]) /\ IsMark(events[j])
    /\ \A k \in (i + 1)..(j - 1) : ~IsMark(events[k])

RECURSIVE TotalDuration(_)
TotalDuration(es) ==
    IF es = <<>> THEN <<0, 1>> ELSE RatAdd(Head(es).dur, TotalDuration(Tail(es)))

\* the time slept between the end of mark i and the start of mark j
Silence(i, j) == TotalDuration(SubSeq(events, i + 1, j - 1))

\* the symbols of display_code between those of marks i and j
Between(i, j) == SubSeq(display_code, events[i].at + 1, events[j].at - 1)

MarkPairs == {ij \in (1..Len(events)) \X (1..Len(events)) : ConsecutiveMarks(ij[1], ij[2])}

Transmitting == status \in {"running", "done"}

\* C3: at any WPM > 0, between the last mark of a word and the first mark of
\* the next word (the three blanks, shown as ' | ') the silence is 7 times
\* the DOT duration.
C3_WordGap ==
    (Transmitting /\ wpm > 0) =>
        \A ij \in MarkPairs :
            Between(ij[1], ij[2]) = <<" ", "|", " ">> =>
                RatEq(Silence(ij[1], ij[2]), Times(DotDuration(unit_time), 7))

\* C8: at any WPM > 0 a DOT sounds for one DOT duration (the unit) and a DASH
\* for three; the silence between two marks of a code is one DOT duration and
\* the silence between two codes separated by one blank is three.
C8_WithinWord ==
    (Transmitting /\ wpm > 0) =>
        /\ \A i \in 1..Len(events) :
              /\ events[i].kind = "DOT" => RatEq(events[i].dur, unit_time)
              /\ events[i].kind = "DASH" =>
                    RatEq(events[i].dur, Times(DotDuration(unit_time), 3))
        /\ \A ij \in MarkPairs :
              /\ Between(ij[1], ij[2]) = <<>> =>
                    RatEq(Silence(ij[1], ij[2]), DotDuration(unit_time))
              /\ Between(ij[1], ij[2]) = <<" ">> =>
                    RatEq(Silence(ij[1], ij[2]), Times(DotDuration(unit_time), 3))

\* C8 witness: a finished transmission at a WPM > 0 with a DASH, two marks
\* of one code and two codes one blank apart
C8_Witness ==
    /\ status = "done" /\ wpm > 0
    /\ \E i \in 1..Len(events) : events[i].kind = "DASH"
    /\ \E ij \in MarkPairs : Between(ij[1], ij[2]) = <<>>
    /\ \E ij \in MarkPairs : Between(ij[1], ij[2]) = <<" ">>

\* the kinds of the events a Morse string calls for, whatever the speed
RECURSIVE PlannedKinds(_)
PlannedKinds(m) ==
    IF m = <<>> THEN <<>>
    ELSE IF Len(m) >= 3 /\ SubSeq(m, 1, 3) = <<" ", " ", " ">>
    THEN <<"GAP_CHAR", "GAP_WORD", "GAP_CHAR">> \o PlannedKinds(SubSeq(m, 4, Len(m)))
    ELSE (CASE Head(m) = "." -> <<"DOT", "GAP_MARK">>
            [] Head(m) = "-" -> <<"DASH", "GAP_MARK">>
            [] Head(m) = " " -> <<"GAP_CHAR">>
            [] OTHER -> <<"LITERAL">>) \o PlannedKinds(Tail(m))

\* C7: with WPM = 0 the simulation of a non-blank string does not fail: the
\* unit is the fallback 0.1 s, every symbol is transmitted in turn, and at
\* the end the kinds of the events are those the string calls for at any
\* speed (the same as with a WPM > 0).
C7_DegenerateWpm ==
    /\ (status # "idle" /\ Strip(morse_message) # <<>>) =>
          /\ Transmitting
          /\ wpm = 0 => RatEq(unit_time, <<1, 10>>)
          /\ status = "running" => ENABLED NextTimer
    /\ status = "done" =>
          [i \in 1..Len(events) |-> events[i].kind] = PlannedKinds(morse_message)

\* C7 witness: a finished transmission at WPM = 0 of two words
C7_Witness ==
    /\ status = "done" /\ wpm = 0
    /\ \E i \in 1..Len(events) : events[i].kind = "GAP_WORD"
    /\ \E i \in 1..Len(events) : IsMark(events[i]) /\ RatEq(events[i].dur, <<3, 10>>)

====
